---- MODULE Spec2Model ----
(***************************************************************************)
(* Routing collectors of packages/core-api/src/routing/collectors.tsx.     *)
(*                                                                         *)
(* A collector is a fold over an element tree: the traversal engine calls  *)
(* the collector's reducer once per node, in depth-first preorder, with    *)
(* the node, its structural parent and the context the parent's reducer    *)
(* call returned.  The three reducers (routePathCollector,                 *)
(* routeParentCollector, routeObjectCollector) are translated from the     *)
(* source; the engine (createCollector / the walk itself) lives in         *)
(* ../extensions/traversal, which is not part of the source at hand, and   *)
(* is modelled from section 4.1 of the specification.                      *)
(*                                                                         *)
(* The tree is the input.  It is revealed node by node as the walk reaches *)
(* it: each Visit step draws the properties and metadata of the next node  *)
(* in document order and records them in `nodes`, so that a state holds    *)
(* the part of the tree walked so far together with the accumulator.       *)
(***************************************************************************)
EXTENDS Integers, Sequences, FiniteSets, TLC

VARIABLES
  collector,  \* which collector this run is: "routePath", "routeParent", "routeObject"
  nodes,      \* the nodes visited so far, in visit (= document) order
  ctxOut,     \* ctxOut[i]: the context the visit of node i handed to i's children
  acc,        \* the collector's accumulator
  wrote,      \* wrote[i]: the visit of node i changed the accumulator (history)
  status,     \* "running", "returned" (collect returned acc), "threw"
  error       \* the message of the Error thrown, NoError otherwise

vars == <<collector, nodes, ctxOut, acc, wrote, status, error>>

---------------------------------------------------------------------------
(* Bounds of the model *)

\* size of the tree: its nodes plus the `element` properties they carry
MaxSize == 5
\* number of nodes of the tree whose caseSensitive property is true
MaxCaseSensitive == 1

---------------------------------------------------------------------------
(* Values *)

\* props.path absent (any falsy value: the reducers only test `!path`)
NoPath == "undefined"
\* no RouteRef (getComponentData returned undefined)
NoRef == 0
NoError == "none"

GathererMustHavePath == "Mount point gatherer must have a path"
MountedMustHavePath == "Mounted routable extension must have a path"
NoPathForMountPoint == "No path found for mount point"

\* Paths and RouteRefs are opaque tokens the reducers never compare; node i,
\* when it has a path, has the path PathOf(i), and when its own metadata
\* carries a mount point, carries the RouteRef RefOf(i).  An element that is
\* not a structural child of node i carries ExternalRefOf(i).
PathNames == <<"/", "/a", "/x", "/b", "/c", "/d", "/e", "/f">>
PathOf(i) == PathNames[i]
RefOf(i) == i
ExternalRefOf(i) == 0 - i

Collectors == {"routePath", "routeParent", "routeObject"}

\* The absent parent of the root node (`parent` is undefined).
NoNode ==
  [id |-> 0, parent |-> 0, isElement |-> FALSE, gather |-> FALSE,
   mountPoint |-> NoRef, element |-> "none", elementMountPoint |-> NoRef,
   path |-> NoPath, caseSensitive |-> FALSE]

\* Map.set(k, v) on a map held as a function
MapSet(m, k, v) == [x \in (DOMAIN m) \cup {k} |-> IF x = k THEN v ELSE m[x]]
EmptyMap == [x \in {} |-> NoRef]

---------------------------------------------------------------------------
(* Context values of routeParentCollector: RouteRef | {sticky: ...} | undefined.
   A value is `wraps` nested {sticky: } wrappers around a RouteRef or undefined. *)

Plain(r) == [wraps |-> 0, ref |-> r]
Undefined == Plain(NoRef)
\* { sticky: v }
Sticky(v) == [wraps |-> v.wraps + 1, ref |-> v.ref]
\* v && 'sticky' in v
IsSticky(v) == v.wraps > 0
\* v.sticky
StickyOf(v) == [wraps |-> v.wraps - 1, ref |-> v.ref]

\* Context of routeObjectCollector: the array to push to, by identity.
\* Array 0 is the accumulator; array i is the `children` array created at node i.
UndefinedArr == 0 - 1
AccArr == 0

---------------------------------------------------------------------------
(* The reducers *)

\* parent?.props.element === node
IsElementOf(node, parent) == parent.element = "child" /\ node.isElement

getMountPoint(node) ==
  IF node.mountPoint # NoRef THEN node.mountPoint
  ELSE IF node.element # "none" THEN node.elementMountPoint
  ELSE NoRef

\* routePathCollector with the gather flag ignored: no gathering ever starts
routePathCollector_NoGathering(a, node, parent, ctxPath) ==
  LET routeRef == getMountPoint(node)
      path == IF ctxPath # NoPath /\ node.path = NoPath
              THEN ctxPath ELSE node.path
      currentCtxPath == IF ctxPath # NoPath /\ node.path # NoPath
                        THEN NoPath ELSE ctxPath
  IN  IF IsElementOf(node, parent)
        THEN [acc |-> a, ctx |-> ctxPath, error |-> NoError]
      ELSE IF routeRef = NoRef
        THEN [acc |-> a, ctx |-> ctxPath, error |-> NoError]
      ELSE IF path = NoPath
        THEN [acc |-> a, ctx |-> ctxPath, error |-> MountedMustHavePath]
      ELSE [acc |-> MapSet(a, routeRef, path), ctx |-> currentCtxPath,
            error |-> NoError]

\* routePathCollector without `currentCtxPath = undefined`: a mount point with
\* its own path does not stop the gathering
routePathCollector_KeepsGathering(a, node, parent, ctxPath) ==
  LET afterGather == IF node.gather THEN node.path ELSE ctxPath
      routeRef == getMountPoint(node)
      path == IF afterGather # NoPath /\ node.path = NoPath
              THEN afterGather ELSE node.path
  IN  IF IsElementOf(node, parent)
        THEN [acc |-> a, ctx |-> ctxPath, error |-> NoError]
      ELSE IF node.gather /\ node.path = NoPath
        THEN [acc |-> a, ctx |-> ctxPath, error |-> GathererMustHavePath]
      ELSE IF routeRef = NoRef
        THEN [acc |-> a, ctx |-> afterGather, error |-> NoError]
      ELSE IF path = NoPath
        THEN [acc |-> a, ctx |-> ctxPath, error |-> MountedMustHavePath]
      ELSE [acc |-> MapSet(a, routeRef, path), ctx |-> afterGather,
            error |-> NoError]

routePathCollector(a, node, parent, ctxPath) ==
  LET afterGather == IF node.gather THEN node.path ELSE ctxPath
      routeRef == getMountPoint(node)
      path == IF afterGather # NoPath /\ node.path = NoPath
              THEN afterGather ELSE node.path
      currentCtxPath == IF afterGather # NoPath /\ node.path # NoPath
                        THEN NoPath ELSE afterGather
  IN  IF IsElementOf(node, parent)
        THEN [acc |-> a, ctx |-> ctxPath, error |-> NoError]
      ELSE IF node.gather /\ node.path = NoPath
        THEN [acc |-> a, ctx |-> ctxPath, error |-> GathererMustHavePath]
      ELSE IF routeRef = NoRef
        THEN [acc |-> a, ctx |-> afterGather, error |-> NoError]
      ELSE IF path = NoPath
        THEN [acc |-> a, ctx |-> ctxPath, error |-> MountedMustHavePath]
      ELSE [acc |-> MapSet(a, routeRef, path), ctx |-> currentCtxPath,
            error |-> NoError]

\* routeParentCollector without the `if (routeRef)` guard: every node is recorded
routeParentCollector_NoGuard(a, node, parent, parentRouteRef) ==
  LET routeRef == getMountPoint(node)
      nextParent ==
        IF IsSticky(parentRouteRef)
          THEN (IF node.path # NoPath THEN Plain(routeRef) ELSE parentRouteRef)
        ELSE Plain(routeRef)
      recorded ==
        IF IsSticky(parentRouteRef)
          THEN MapSet(a, routeRef, StickyOf(parentRouteRef))
        ELSE MapSet(a, routeRef, parentRouteRef)
  IN  IF IsElementOf(node, parent)
        THEN [acc |-> a, ctx |-> parentRouteRef, error |-> NoError]
      ELSE [acc |-> recorded,
            ctx |-> IF node.gather THEN Sticky(nextParent) ELSE nextParent,
            error |-> NoError]

\* routeParentCollector with the sticky context dropped at every mount point,
\* with or without a path of its own
routeParentCollector_NeverSticks(a, node, parent, parentRouteRef) ==
  LET routeRef == getMountPoint(node)
      nextParent ==
        IF routeRef = NoRef THEN parentRouteRef ELSE Plain(routeRef)
      recorded ==
        IF routeRef = NoRef THEN a
        ELSE IF IsSticky(parentRouteRef)
          THEN MapSet(a, routeRef, StickyOf(parentRouteRef))
        ELSE MapSet(a, routeRef, parentRouteRef)
  IN  IF IsElementOf(node, parent)
        THEN [acc |-> a, ctx |-> parentRouteRef, error |-> NoError]
      ELSE [acc |-> recorded,
            ctx |-> IF node.gather THEN Sticky(nextParent) ELSE nextParent,
            error |-> NoError]

routeParentCollector(a, node, parent, parentRouteRef) ==
  LET routeRef == getMountPoint(node)
      nextParent ==
        IF routeRef = NoRef THEN parentRouteRef
        ELSE IF IsSticky(parentRouteRef)
          THEN (IF node.path # NoPath THEN Plain(routeRef) ELSE parentRouteRef)
        ELSE Plain(routeRef)
      recorded ==
        IF routeRef = NoRef THEN a
        ELSE IF IsSticky(parentRouteRef)
          THEN MapSet(a, routeRef, StickyOf(parentRouteRef))
        ELSE MapSet(a, routeRef, parentRouteRef)
  IN  IF IsElementOf(node, parent)
        THEN [acc |-> a, ctx |-> parentRouteRef, error |-> NoError]
      ELSE [acc |-> recorded,
            ctx |-> IF node.gather THEN Sticky(nextParent) ELSE nextParent,
            error |-> NoError]

\* The push of routeObjectCollector: `object` appended to array `to`, and its
\* fresh `children` array.
Push(a, to, object) ==
  [x \in (DOMAIN a) \cup {object.children} |->
     IF x = to THEN Append(a[x], object)
     ELSE IF x = object.children THEN <<>>
     ELSE a[x]]

\* routeObjectCollector without the early return for the parent's element
routeObjectCollector_NoAliasCheck(a, node, parent, ctxArr) ==
  LET parentChildArr == IF ctxArr = UndefinedArr THEN AccArr ELSE ctxArr
      routeRef == getMountPoint(node)
      object == [caseSensitive |-> node.caseSensitive, path |-> node.path,
                 element |-> "null", routeRef |-> routeRef,
                 children |-> node.id]
  IN  IF routeRef = NoRef
        THEN [acc |-> a, ctx |-> parentChildArr, error |-> NoError]
      ELSE IF node.path = NoPath
        THEN [acc |-> a, ctx |-> parentChildArr, error |-> NoPathForMountPoint]
      ELSE [acc |-> Push(a, parentChildArr, object),
            ctx |-> object.children, error |-> NoError]

\* routeObjectCollector returning parentChildArr instead of the new children
routeObjectCollector_Flat(a, node, parent, ctxArr) ==
  LET parentChildArr == IF ctxArr = UndefinedArr THEN AccArr ELSE ctxArr
      routeRef == getMountPoint(node)
      object == [caseSensitive |-> node.caseSensitive, path |-> node.path,
                 element |-> "null", routeRef |-> routeRef,
                 children |-> node.id]
  IN  IF IsElementOf(node, parent)
        THEN [acc |-> a, ctx |-> parentChildArr, error |-> NoError]
      ELSE IF routeRef = NoRef
        THEN [acc |-> a, ctx |-> parentChildArr, error |-> NoError]
      ELSE IF node.path = NoPath
        THEN [acc |-> a, ctx |-> parentChildArr, error |-> NoPathForMountPoint]
      ELSE [acc |-> Push(a, parentChildArr, object),
            ctx |-> parentChildArr, error |-> NoError]

\* routeObjectCollector without the `if (!path) throw`
routeObjectCollector_NoThrow(a, node, parent, ctxArr) ==
  LET parentChildArr == IF ctxArr = UndefinedArr THEN AccArr ELSE ctxArr
      routeRef == getMountPoint(node)
      object == [caseSensitive |-> node.caseSensitive, path |-> node.path,
                 element |-> "null", routeRef |-> routeRef,
                 children |-> node.id]
  IN  IF IsElementOf(node, parent)
        THEN [acc |-> a, ctx |-> parentChildArr, error |-> NoError]
      ELSE IF routeRef = NoRef
        THEN [acc |-> a, ctx |-> parentChildArr, error |-> NoError]
      ELSE [acc |-> Push(a, parentChildArr, object),
            ctx |-> object.children, error |-> NoError]

routeObjectCollector(a, node, parent, ctxArr) ==
  LET parentChildArr == IF ctxArr = UndefinedArr THEN AccArr ELSE ctxArr
      routeRef == getMountPoint(node)
      object == [caseSensitive |-> node.caseSensitive, path |-> node.path,
                 element |-> "null", routeRef |-> routeRef,
                 children |-> node.id]
  IN  IF IsElementOf(node, parent)
        THEN [acc |-> a, ctx |-> parentChildArr, error |-> NoError]
      ELSE IF routeRef = NoRef
        THEN [acc |-> a, ctx |-> parentChildArr, error |-> NoError]
      ELSE IF node.path = NoPath
        THEN [acc |-> a, ctx |-> parentChildArr, error |-> NoPathForMountPoint]
      ELSE [acc |-> Push(a, parentChildArr, object),
            ctx |-> object.children, error |-> NoError]

\* The initial accumulator of each collector.
InitialAcc(c) ==
  IF c = "routeObject" THEN [x \in {AccArr} |-> <<>>] ELSE EmptyMap

\* The context of the root's visit: none was given.
NoContext(c) ==
  CASE c = "routePath" -> NoPath
    [] c = "routeParent" -> Undefined
    [] c = "routeObject" -> UndefinedArr

Reduce(c, a, node, parent, ctx) ==
  CASE c = "routePath" -> routePathCollector(a, node, parent, ctx)
    [] c = "routeParent" -> routeParentCollector(a, node, parent, ctx)
    [] c = "routeObject" -> routeObjectCollector(a, node, parent, ctx)

---------------------------------------------------------------------------
(* The tree *)

NodeIds == 1..Len(nodes)
NodeAt(i) == IF i = 0 THEN NoNode ELSE nodes[i]

RECURSIVE AncestorsOrSelf(_)
AncestorsOrSelf(i) ==
  IF i = 0 THEN {} ELSE {i} \cup AncestorsOrSelf(nodes[i].parent)
Ancestors(i) == AncestorsOrSelf(i) \ {i}
\* the nodes strictly between ancestor g and its descendant m
Between(g, m) == Ancestors(m) \ AncestorsOrSelf(g)

Suppressed(i) == IsElementOf(nodes[i], NodeAt(nodes[i].parent))
IsMountPoint(i) == getMountPoint(nodes[i]) # NoRef
HasPath(i) == nodes[i].path # NoPath

\* The node the walk may attach the next node to: a preorder walk that has
\* reached node Len(nodes) continues below it or below one of its ancestors.
OpenNodes == IF nodes = <<>> THEN {0} ELSE AncestorsOrSelf(Len(nodes))

\* The last visited node has an element that is its first structural child,
\* which the walk has yet to reach.
PendingElement == nodes # <<>> /\ nodes[Len(nodes)].element = "child"

ElementsUsed == Cardinality({i \in NodeIds : nodes[i].element # "none"})
TreeSize == Len(nodes) + ElementsUsed
CaseSensitiveUsed == Cardinality({i \in NodeIds : nodes[i].caseSensitive})

\* props.path is drawn where a reducer uses it: on a gather-marked node
\* (routePathCollector) and on a mount point (all three).
PathRead(gather, mount) == gather \/ mount

\* An element property takes one unit of the size, and an element that is a
\* structural child (the first one) is a node still to come.
ElementKinds(size, mount) ==
  {"none"}
  \cup (IF size + 3 <= MaxSize THEN {"child"} ELSE {})
  \cup (IF size + 2 <= MaxSize /\ mount = NoRef THEN {"other"} ELSE {})

ElementMountPoints(id, element) ==
  CASE element = "none" -> {NoRef}
    [] element = "child" -> {NoRef, RefOf(id + 1)}
    [] element = "other" -> {ExternalRefOf(id)}

\* The nodes the tree may hold as node `id` below parent p.
NodeInputs(c, id, p) ==
  LET size == TreeSize
      mayBeCaseSensitive == CaseSensitiveUsed < MaxCaseSensitive
  IN
  IF PendingElement /\ p = Len(nodes)
  THEN \* the parent's element, its first child: the reducers skip it, and
       \* read of it only the mount point (through the parent) and the element
       { n \in [id : {id}, parent : {p}, isElement : {TRUE}, gather : BOOLEAN,
                mountPoint : {NodeAt(p).elementMountPoint},
                element : {"none", "child"},
                elementMountPoint : {NoRef, RefOf(id + 1)},
                path : {NoPath}, caseSensitive : {FALSE}] :
           /\ n.element \in ElementKinds(size, n.mountPoint)
           /\ n.elementMountPoint \in ElementMountPoints(id, n.element) }
  ELSE { n \in [id : {id}, parent : {p}, isElement : {FALSE}, gather : BOOLEAN,
                mountPoint : {NoRef, RefOf(id)},
                element : {"none", "child", "other"},
                elementMountPoint : {NoRef, RefOf(id + 1), ExternalRefOf(id)},
                path : {NoPath, PathOf(id)}, caseSensitive : BOOLEAN] :
           /\ n.element \in ElementKinds(size, n.mountPoint)
           /\ n.elementMountPoint \in ElementMountPoints(id, n.element)
           /\ (n.path # NoPath => PathRead(n.gather, getMountPoint(n) # NoRef))
           /\ (n.caseSensitive =>
                 /\ c = "routeObject" /\ getMountPoint(n) # NoRef /\ n.path # NoPath
                 /\ mayBeCaseSensitive) }

---------------------------------------------------------------------------
(* The traversal engine *)

Init ==
  /\ collector \in Collectors
  /\ nodes = <<>>
  /\ ctxOut = <<>>
  /\ acc = InitialAcc(collector)
  /\ wrote = <<>>
  /\ status = "running"
  /\ error = NoError

\* The walk reaches the next node in document order, a child of p, and calls
\* the reducer on it with the context p's visit returned.
VisitNode(c, p, node) ==
  LET ctxIn == IF p = 0 THEN NoContext(c) ELSE ctxOut[p]
      r == Reduce(c, acc, node, NodeAt(p), ctxIn)
  IN  /\ nodes' = Append(nodes, node)
      /\ ctxOut' = Append(ctxOut, r.ctx)
      /\ acc' = r.acc
      /\ wrote' = Append(wrote, r.acc # acc)
      /\ status' = IF r.error = NoError THEN "running" ELSE "threw"
      /\ error' = r.error
      /\ UNCHANGED collector

\* One step of the walk of collector c.
Walk(c) ==
  /\ status = "running"
  /\ TreeSize < MaxSize
  /\ \E p \in OpenNodes :
       /\ PendingElement => p = Len(nodes)
       /\ \E node \in NodeInputs(c, Len(nodes) + 1, p) : VisitNode(c, p, node)

VisitRoutePath ==
  /\ collector = "routePath"
  /\ Walk("routePath")

VisitRouteParent ==
  /\ collector = "routeParent"
  /\ Walk("routeParent")

VisitRouteObject ==
  /\ collector = "routeObject"
  /\ Walk("routeObject")

\* Every node has been visited: collect returns the accumulator.
Finish ==
  /\ status = "running"
  /\ nodes # <<>>
  /\ ~PendingElement
  /\ status' = "returned"
  /\ UNCHANGED <<collector, nodes, ctxOut, acc, wrote, error>>

Next == VisitRoutePath \/ VisitRouteParent \/ VisitRouteObject \/ Finish

Spec == Init /\ [][Next]_vars

---------------------------------------------------------------------------
(* Vocabulary of the properties *)

\* the nodes a reducer ran on to its end or to its throw
Visited(i) == ~Suppressed(i)
Gathers(i) == nodes[i].gather
RouteRefOf(i) == getMountPoint(nodes[i])
\* the context the visit of node i was given
CtxIn(i) == IF nodes[i].parent = 0 THEN NoContext(collector)
            ELSE ctxOut[nodes[i].parent]
Recorded(i, v) == RouteRefOf(i) \in DOMAIN acc /\ acc[RouteRefOf(i)] = v
Threw(i, msg) == status = "threw" /\ error = msg /\ i = Len(nodes)

---------------------------------------------------------------------------
(* C1 *)

\* G starts a gathering region with its own path and M is an un-pathed mount
\* point below it with neither a gather-marked node nor a mount point with an
\* own path strictly between them.
C1_Region(g, m) ==
  /\ Visited(g) /\ Gathers(g) /\ HasPath(g)
  /\ g \in Ancestors(m)
  /\ IsMountPoint(m) /\ ~HasPath(m)
  /\ \A k \in Between(g, m) : ~Gathers(k) /\ ~(IsMountPoint(k) /\ HasPath(k))

\* C1 as stated: every un-pathed mount point M of the gathering region of a
\* gather-marked node G with own path p is recorded as pathMap[routeRef(M)] = p.
C1_Original ==
  collector = "routePath" =>
    \A g \in NodeIds, m \in NodeIds :
      C1_Region(g, m) => Recorded(m, nodes[g].path)

\* C1 amended: the same, when G is not itself a mount point (a mount point with
\* an own path ends the gathering it starts), and M is neither alias-suppressed
\* nor itself gather-marked: the visit of M then records
\* pathMap[routeRef(M)] = p.
C1_Amended ==
  collector = "routePath" =>
    \A g \in NodeIds, m \in NodeIds :
      (C1_Region(g, m) /\ ~IsMountPoint(g) /\ Visited(m) /\ ~Gathers(m))
        => Recorded(m, nodes[g].path) /\ wrote[m]

\* a returned run with such G and M, another un-pathed mount point between them
C1_Witness ==
  /\ collector = "routePath" /\ status = "returned"
  /\ \E g \in NodeIds, m \in NodeIds :
       /\ C1_Region(g, m) /\ ~IsMountPoint(g) /\ Visited(m) /\ ~Gathers(m)
       /\ \E k \in Between(g, m) : IsMountPoint(k) /\ Visited(k)
       /\ Recorded(m, nodes[g].path)

---------------------------------------------------------------------------
(* C2 *)

\* M is a mount point with its own path, visited with a context path.
C2_Stops(m) ==
  /\ Visited(m) /\ IsMountPoint(m) /\ HasPath(m)
  /\ CtxIn(m) # NoPath

\* D is an un-pathed mount point below M with no gather-marked node between.
C2_Below(m, d) ==
  /\ m \in Ancestors(d)
  /\ IsMountPoint(d) /\ ~HasPath(d)
  /\ \A k \in Between(m, d) : ~Gathers(k)

\* C2 as stated: M is recorded with its own path, hands no context path to its
\* children, and the run fails with the 'Mounted routable extension must have a
\* path' error for an un-pathed mount point D below M.
C2_Original ==
  collector = "routePath" =>
    \A m \in NodeIds :
      C2_Stops(m) =>
        /\ Recorded(m, nodes[m].path)
        /\ ctxOut[m] = NoPath
        /\ \A d \in NodeIds :
             C2_Below(m, d) => status = "threw" /\ error = MountedMustHavePath

\* C2 amended: the same, the error being thrown by the visit of D when D is
\* neither alias-suppressed (its reducer is skipped) nor itself gather-marked
\* (the gatherer error is thrown instead).
C2_Amended ==
  collector = "routePath" =>
    \A m \in NodeIds :
      C2_Stops(m) =>
        /\ Recorded(m, nodes[m].path)
        /\ ctxOut[m] = NoPath
        /\ \A d \in NodeIds :
             (C2_Below(m, d) /\ Visited(d) /\ ~Gathers(d))
               => Threw(d, MountedMustHavePath)

\* the run threw at such a D, with M inside the region of a gatherer other than M
C2_Witness ==
  /\ collector = "routePath"
  /\ \E m \in NodeIds, d \in NodeIds :
       /\ C2_Stops(m) /\ ~Gathers(m)
       /\ C2_Below(m, d) /\ Visited(d) /\ ~Gathers(d)
       /\ CtxIn(m) # nodes[m].path
       /\ Threw(d, MountedMustHavePath)

---------------------------------------------------------------------------
(* C3 *)

\* M is an un-pathed mount point in the subtree of the gather-marked node G,
\* with no mount point with an own path between them.
C3_Region(g, m) ==
  /\ Visited(g) /\ Gathers(g)
  /\ g \in Ancestors(m)
  /\ Visited(m) /\ IsMountPoint(m) /\ ~HasPath(m)
  /\ \A k \in Between(g, m) : ~(IsMountPoint(k) /\ HasPath(k))

\* C3 as stated: all un-pathed mount points of the region of G are recorded
\* with the parent value that was in force when gathering began at G, the
\* value G wrapped as sticky.
C3_Original ==
  collector = "routeParent" =>
    \A g \in NodeIds, m \in NodeIds :
      C3_Region(g, m) => Recorded(m, StickyOf(ctxOut[g]))

---------------------------------------------------------------------------
(* C4 *)

\* the RouteRefs getMountPoint returned for some node of the tree
DiscoveredRefs == {RouteRefOf(i) : i \in NodeIds} \ {NoRef}

\* C4 as stated: every value of the parent map is absent or a RouteRef that
\* getMountPoint returned for a node of the tree, never a sticky wrapper.
C4_Original ==
  collector = "routeParent" =>
    \A k \in DOMAIN acc :
      /\ ~IsSticky(acc[k])
      /\ acc[k].ref \in DiscoveredRefs \cup {NoRef}

---------------------------------------------------------------------------
(* C5 *)

NoMountPoints ==
  \A i \in NodeIds : nodes[i].mountPoint = NoRef /\ ~IsMountPoint(i)

\* C5 as stated: on a tree without mount points each collector completes
\* without error and returns an empty result.
C5_Original ==
  NoMountPoints => status # "threw" /\ acc = InitialAcc(collector)

\* C5 amended: the same for routeParentCollector and routeObjectCollector; for
\* routePathCollector when, in addition, every gather-marked node that is
\* not alias-suppressed has its own path, the visit of one without a path
\* throwing 'Mount point gatherer must have a path'.
C5_Amended ==
  NoMountPoints =>
    /\ (collector = "routePath" =>
          \A i \in NodeIds :
            (Visited(i) /\ Gathers(i) /\ ~HasPath(i))
              => Threw(i, GathererMustHavePath) /\ ~wrote[i])
    /\ (collector = "routePath" =>
          \A i \in NodeIds : (Visited(i) /\ Gathers(i)) => HasPath(i))
        => status # "threw" /\ error = NoError /\ acc = InitialAcc(collector)

\* a returned run over a tree without mount points that holds a gatherer
\* and an element
C5_Witness ==
  /\ NoMountPoints /\ status = "returned" /\ acc = InitialAcc(collector)
  /\ Len(nodes) >= 3
  /\ \E i \in NodeIds : Gathers(i) /\ Visited(i)
  /\ \E i \in NodeIds : nodes[i].element = "child"

---------------------------------------------------------------------------
(* C6 *)

\* N has an element E, its structural child, E carries a mount point and N
\* none of its own.
C6_Alias(n, e) ==
  /\ nodes[e].parent = n /\ IsElementOf(nodes[e], nodes[n])
  /\ nodes[n].mountPoint = NoRef
  /\ nodes[e].mountPoint # NoRef

WritesOf(r) == {i \in NodeIds : wrote[i] /\ RouteRefOf(i) = r}

C6_Outcome(n, e) ==
  /\ WritesOf(nodes[e].mountPoint) = {n}
  /\ ~wrote[e]
  /\ ~(status = "threw" /\ e = Len(nodes))
  /\ ctxOut[e] = ctxOut[n]

\* C6 as stated: the collector records R once, at N; the visit of E changes
\* no accumulator entry, throws nothing and hands N's context to E's children.
C6_Original ==
  \A n \in NodeIds, e \in NodeIds : C6_Alias(n, e) => C6_Outcome(n, e)

\* C6 amended: the same, when N is not itself alias-suppressed (N being the
\* element of its own parent, no reducer runs on N and R is not recorded).
C6_Amended ==
  \A n \in NodeIds, e \in NodeIds :
    (C6_Alias(n, e) /\ Visited(n)) => C6_Outcome(n, e)

\* a returned run in which E has a child of its own
C6_Witness ==
  /\ status = "returned"
  /\ \E n \in NodeIds, e \in NodeIds, c \in NodeIds :
       /\ C6_Alias(n, e) /\ Visited(n) /\ C6_Outcome(n, e)
       /\ nodes[c].parent = e /\ Visited(c) /\ IsMountPoint(c)

---------------------------------------------------------------------------
(* C7 *)

\* the mount points a reducer runs on
MountNodes == {i \in NodeIds : Visited(i) /\ IsMountPoint(i)}

Max(S) == CHOOSE x \in S : \A y \in S : y <= x
Min(S) == CHOOSE x \in S : \A y \in S : x <= y

\* The nearest mount-point proper ancestor of node i that is not suppressed
\* (0: none).  A node's ancestors were visited before it, the nearer the later.
NearestMount(i) ==
  LET above == Ancestors(i) \cap MountNodes
  IN  IF above = {} THEN 0 ELSE Max(above)

\* S in document order
RECURSIVE InOrder(_)
InOrder(S) == IF S = {} THEN <<>> ELSE <<Min(S)>> \o InOrder(S \ {Min(S)})

\* the RouteObject of mount point i
RouteObjectOf(i) ==
  [caseSensitive |-> nodes[i].caseSensitive, path |-> nodes[i].path,
   element |-> "null", routeRef |-> RouteRefOf(i), children |-> i]

\* the children sequence below mount point o (0: the top-level result) that
\* the nesting of the mount points induces
InducedChildren(o) ==
  LET below == InOrder({i \in MountNodes : NearestMount(i) = o})
  IN  [k \in 1..Len(below) |-> RouteObjectOf(below[k])]

\* C7: when routeObjectCollector returns, every mount point that is not
\* suppressed has exactly one RouteObject, held in the children sequence of the
\* RouteObject of its nearest such mount-point ancestor (the top-level result
\* when it has none), and every children sequence is in document order.
C7_Nesting ==
  (collector = "routeObject" /\ status = "returned") =>
    /\ DOMAIN acc = {AccArr} \cup MountNodes
    /\ \A o \in DOMAIN acc : acc[o] = InducedChildren(o)

\* a returned run with a mount point two non-mount-point nodes below another,
\* or with two mount points sharing a children sequence at different depths
C7_Witness ==
  /\ collector = "routeObject" /\ status = "returned"
  /\ \E m \in MountNodes, x \in NodeIds, d \in MountNodes, e \in MountNodes :
       /\ d # e /\ NearestMount(d) = m /\ NearestMount(e) = m
       /\ nodes[d].parent = x /\ x # m /\ ~IsMountPoint(x)
       /\ Len(acc[m]) = 2

---------------------------------------------------------------------------
(* C8 *)

\* the value routeObjectCollector returns: the arrays, nested
RECURSIVE RouteObjects(_)
RouteObjects(arr) ==
  [k \in 1..Len(acc[arr]) |->
     [path |-> acc[arr][k].path, routeRef |-> acc[arr][k].routeRef,
      children |-> RouteObjects(acc[arr][k].children)]]

PlainNode(id, parent) ==
  [id |-> id, parent |-> parent, isElement |-> FALSE, gather |-> FALSE,
   mountPoint |-> NoRef, element |-> "none", elementMountPoint |-> NoRef,
   path |-> NoPath, caseSensitive |-> FALSE]

\* root -> gatherer(path "/a") -> nodeX(mount point R1) -> nodeY(mount point R2, path "/b")
R1 == RefOf(3)
R2 == RefOf(4)
Scenario ==
  << PlainNode(1, 0),
     [PlainNode(2, 1) EXCEPT !.gather = TRUE, !.path = "/a"],
     [PlainNode(3, 2) EXCEPT !.mountPoint = R1],
     [PlainNode(4, 3) EXCEPT !.mountPoint = R2, !.path = "/b"] >>

\* the run is over the scenario's tree and has ended: it threw, or it
\* returned after the last node
ScenarioRun ==
  /\ Len(nodes) <= Len(Scenario)
  /\ nodes = SubSeq(Scenario, 1, Len(nodes))
  /\ \/ status = "threw"
     \/ status = "returned" /\ Len(nodes) = Len(Scenario)

ScenarioPathMap == [r \in {R1, R2} |-> IF r = R1 THEN "/a" ELSE "/b"]
ScenarioParentMap == [r \in {R1, R2} |-> Undefined]
ScenarioObjects ==
  << [path |-> "/a", routeRef |-> R1,
      children |-> << [path |-> "/b", routeRef |-> R2, children |-> <<>>] >>] >>

\* C8 as stated: on the scenario the three collectors return the path map
\* {R1: "/a", R2: "/b"}, the parent map {R1: absent, R2: absent} and the object
\* tree [{"/a", R1, [{"/b", R2, []}]}].
C8_Original ==
  ScenarioRun =>
    /\ status = "returned"
    /\ CASE collector = "routePath" -> acc = ScenarioPathMap
         [] collector = "routeParent" -> acc = ScenarioParentMap
         [] collector = "routeObject" -> RouteObjects(AccArr) = ScenarioObjects

\* C8 amended: routePathCollector and routeParentCollector return those maps;
\* routeObjectCollector throws 'No path found for mount point' at nodeX, which
\* has no path of its own, and returns no object tree.
C8_Amended ==
  ScenarioRun =>
    CASE collector = "routePath" -> status = "returned" /\ acc = ScenarioPathMap
      [] collector = "routeParent" ->
           status = "returned" /\ acc = ScenarioParentMap
      [] collector = "routeObject" ->
           Threw(3, NoPathForMountPoint) /\ RouteObjects(AccArr) = <<>>

\* the run of routeObjectCollector over the scenario has ended
C8_Witness == ScenarioRun /\ collector = "routeObject"

---------------------------------------------------------------------------
(* C9 *)

\* C9: a mount point without an own path makes routeObjectCollector throw 'No
\* path found for mount point' at that node: the walk ends there, the visit
\* adds no RouteObject and nothing is returned.
C9_Strict ==
  collector = "routeObject" =>
    \A i \in NodeIds :
      (Visited(i) /\ IsMountPoint(i) /\ ~HasPath(i))
        => Threw(i, NoPathForMountPoint) /\ ~wrote[i] /\ status # "returned"

\* the throw happens at a node to which routePathCollector would give the path
\* of its gathering region, after a RouteObject was already built
C9_Witness ==
  /\ collector = "routeObject"
  /\ acc # InitialAcc(collector)
  /\ \E g \in NodeIds, i \in NodeIds :
       /\ C1_Region(g, i) /\ ~IsMountPoint(g) /\ Visited(i) /\ ~Gathers(i)
       /\ Threw(i, NoPathForMountPoint)

---------------------------------------------------------------------------
(* C10 *)

\* M is a mount point with its own path, not gather-marked, visited under a
\* sticky context.
C10_Rebases(m) ==
  /\ Visited(m) /\ IsMountPoint(m) /\ HasPath(m) /\ ~Gathers(m)
  /\ IsSticky(CtxIn(m))

\* D is the next mount point below M on its branch.
C10_Next(m, d) ==
  /\ m \in Ancestors(d)
  /\ Visited(d) /\ IsMountPoint(d)
  /\ \A k \in Between(m, d) : ~(Visited(k) /\ IsMountPoint(k))

\* C10 as stated: M is recorded with the parent P of its context sticky(P),
\* hands its own plain RouteRef to its children, and the next mount point
\* below M on each branch is recorded with parent routeRef(M).
C10_Original ==
  collector = "routeParent" =>
    \A m \in NodeIds :
      C10_Rebases(m) =>
        /\ Recorded(m, StickyOf(CtxIn(m)))
        /\ ctxOut[m] = Plain(RouteRefOf(m))
        /\ \A d \in NodeIds :
             C10_Next(m, d) => Recorded(d, Plain(RouteRefOf(m)))

====
